---- MODULE Spec2Model ----
(***************************************************************************)
(* Node usage-reset scheduling of the panel: app/db/crud/node.py.          *)
(*                                                                         *)
(* The database (nodes, node_usage_reset_logs) is the shared state.  Each  *)
(* AsyncSession holds the ORM objects it loaded (its identity map): the    *)
(* attribute values as of the load.  A commit flushes, in one transaction, *)
(* the pending INSERTs and an UPDATE of exactly the attributes whose value *)
(* differs from the loaded one (SQLAlchemy's unit of work).                *)
(* Instants are whole seconds since 1970-01-01T00:00:00Z.                  *)
(***************************************************************************)
EXTENDS Integers, Sequences, FiniteSets, TLC

VARIABLES
    now,          \* the wall clock (datetime.now(timezone.utc), SQL now())
    nodes,        \* table nodes: node id -> row
    usage_logs,   \* table node_usage_reset_logs, in insertion order
    usage_tables, \* tables node_user_usages, node_usages, node_stats
    sessions,     \* per AsyncSession: position and loaded ORM objects
    last_call     \* history: the selection or reset that ran last with what
                  \* it saw, or "other" after any other step

vars == <<now, nodes, usage_logs, usage_tables, sessions, last_call>>

-----------------------------------------------------------------------------
(* Bounds of the model *)

MaxUsage == 2       \* usage recordings a node's counters hold
MaxLoopLag == 1     \* seconds the clock may advance inside one selection
MaxUpdates == 1     \* entries of one bulk_update_node_status call
MaxRows == 2        \* rows of one node in a table that refers to nodes

NodeIds == {1, 2}
\* the session of the periodic reset job and the session of an API request
JobSessions == {"job"}
ApiSessions == {"api"}
Sessions == JobSessions \cup ApiSessions

-----------------------------------------------------------------------------
(* Enumerations and constants of the program *)

NodeStatus == {"connecting", "connected", "error", "disabled", "limited"}
DataLimitResetStrategy == {"no_reset", "day", "week", "month", "year"}

SECONDS_IN_DAY == 86400
SECONDS_IN_WEEK == 604800
SECONDS_IN_MONTH == 2678400
SECONDS_IN_YEAR == 31536000

NULL == "NULL"

-----------------------------------------------------------------------------
(* datetime: the attributes the selection reads from an instant *)

\* datetime.date() as a day ordinal (dates compare and subtract by ordinal)
Date(t) == t \div SECONDS_IN_DAY

\* hour * 3600 + minute * 60 + second
SecondsOfDay(t) == t % SECONDS_IN_DAY

\* datetime.weekday(): Monday is 0; 1970-01-01 was a Thursday
Weekday(t) == (Date(t) + 3) % 7

\* the proleptic Gregorian calendar: year, month, day of an instant
Civil(t) ==
    LET z == Date(t) + 719468
        era == z \div 146097
        doe == z % 146097
        yoe == (doe - doe \div 1460 + doe \div 36524 - doe \div 146096) \div 365
        doy == doe - (365 * yoe + yoe \div 4 - yoe \div 100)
        mp == (5 * doy + 2) \div 153
        d == doy - (153 * mp + 2) \div 5 + 1
        m == IF mp < 10 THEN mp + 3 ELSE mp - 9
        y == yoe + era * 400 + (IF m <= 2 THEN 1 ELSE 0)
    IN  [year |-> y, month |-> m, day |-> d]

Year(t) == Civil(t).year
Month(t) == Civil(t).month
Day(t) == Civil(t).day

IsLeap(y) == (y % 4 = 0 /\ y % 100 # 0) \/ y % 400 = 0

\* timetuple().tm_yday: 1 for January 1st
YDay(t) ==
    LET c == Civil(t)
        before == <<0, 31, 59, 90, 120, 151, 181, 212, 243, 273, 304, 334>>
    IN  before[c.month] + c.day + (IF c.month > 2 /\ IsLeap(c.year) THEN 1 ELSE 0)

-----------------------------------------------------------------------------
(* Helpers on sets and sequences *)

Max(S) == CHOOSE x \in S : \A y \in S : y <= x

RECURSIVE SortedSeq(_)
\* the elements of a finite set of integers in increasing order
SortedSeq(S) ==
    IF S = {} THEN <<>>
    ELSE LET m == CHOOSE x \in S : \A y \in S : x <= y
         IN  <<m>> \o SortedSeq(S \ {m})

LogsOf(logs, n) == {i \in 1..Len(logs) : logs[i].node_id = n}

-----------------------------------------------------------------------------
(* get_nodes_to_reset_usage: the due decision *)

\* DateDiff(a, b): the calendar-day difference of two instants
DateDiff(a, b) == Date(a) - Date(b)

\* interval mode: days between resets, per strategy
reset_strategy_to_days == [day |-> 1, week |-> 7, month |-> 30, year |-> 365]

\* the interval comparison written with > instead of >=
IntervalDue_Strict(strategy, t, last_reset) ==
    /\ strategy \in DOMAIN reset_strategy_to_days
    /\ DateDiff(t, last_reset) > reset_strategy_to_days[strategy]

\* num_days_to_reset_case; a strategy outside the mapping gives SQL NULL,
\* and a comparison with NULL selects no row
IntervalDue(strategy, t, last_reset) ==
    /\ strategy \in DOMAIN reset_strategy_to_days
    /\ DateDiff(t, last_reset) >= reset_strategy_to_days[strategy]

\* the WHERE clause with disabled among the statuses
Eligible_WithDisabled(row) ==
    /\ row.status \in {"connected", "limited", "error", "connecting", "disabled"}
    /\ row.data_limit_reset_strategy # "no_reset"

\* the status and strategy conditions of the WHERE clause
Eligible(row) ==
    /\ row.status \in {"connected", "limited", "error", "connecting"}
    /\ row.data_limit_reset_strategy # "no_reset"

\* coalesce(max(created_at) of the node's log rows, Node.created_at)
LastResetTime(logs, n, row) ==
    IF LogsOf(logs, n) # {}
    THEN Max({logs[i].created_at : i \in LogsOf(logs, n)})
    ELSE row.created_at

\* the CASE of the WHERE clause: interval rows are decided by the query,
\* time-based rows all pass
SqlDue(row, t, last_reset) ==
    IF row.reset_time = -1
    THEN IntervalDue(row.data_limit_reset_strategy, t, last_reset)
    ELSE TRUE

\* the loop's last_reset: from the loaded usage_logs of the object
ObjLastReset(obj) ==
    IF obj.usage_logs # {}
    THEN Max({l.created_at : l \in obj.usage_logs})
    ELSE obj.row.created_at

\* the day branch without the look at the last reset
ShouldResetDay_NoLast(reset_time, t, last_reset) ==
    SecondsOfDay(t) >= reset_time

ShouldResetDay(reset_time, t, last_reset) ==
    LET current_seconds == SecondsOfDay(t)
        last_reset_seconds == SecondsOfDay(last_reset)
    IN  /\ current_seconds >= reset_time
        /\ (Date(t) > Date(last_reset) \/ last_reset_seconds < reset_time)

\* the week branch without "or days_diff > 7"
ShouldResetWeek_NoLongGap(reset_time, t, last_reset) ==
    LET current_week_seconds == Weekday(t) * SECONDS_IN_DAY + SecondsOfDay(t)
        last_reset_week_seconds ==
            Weekday(last_reset) * SECONDS_IN_DAY + SecondsOfDay(last_reset)
        days_diff == Date(t) - Date(last_reset)
    IN  /\ days_diff >= 7
        /\ current_week_seconds >= reset_time
        /\ last_reset_week_seconds < reset_time

ShouldResetWeek(reset_time, t, last_reset) ==
    LET current_week_seconds == Weekday(t) * SECONDS_IN_DAY + SecondsOfDay(t)
        last_reset_week_seconds ==
            Weekday(last_reset) * SECONDS_IN_DAY + SecondsOfDay(last_reset)
        days_diff == Date(t) - Date(last_reset)
    IN  /\ days_diff >= 7
        /\ current_week_seconds >= reset_time
        /\ (last_reset_week_seconds < reset_time \/ days_diff > 7)

\* the month branch with the target day capped at 29
ShouldResetMonth_Cap29(reset_time, t, last_reset) ==
    LET day_part == reset_time \div SECONDS_IN_DAY
        target_day == IF day_part < 29 THEN day_part ELSE 29
        target_seconds == reset_time % SECONDS_IN_DAY
        current_day == Day(t)
        current_seconds == SecondsOfDay(t)
    IN  /\ \/ current_day > target_day
           \/ (current_day = target_day /\ current_seconds >= target_seconds)
        /\ \/ Year(t) > Year(last_reset)
           \/ Month(t) > Month(last_reset)
           \/ /\ Month(t) = Month(last_reset)
              /\ \/ Day(last_reset) < target_day
                 \/ /\ Day(last_reset) = target_day
                    /\ SecondsOfDay(last_reset) < target_seconds

\* the month branch without the cap of the target day at 28
ShouldResetMonth_NoCap(reset_time, t, last_reset) ==
    LET target_day == reset_time \div SECONDS_IN_DAY
        target_seconds == reset_time % SECONDS_IN_DAY
        current_day == Day(t)
        current_seconds == SecondsOfDay(t)
    IN  /\ \/ current_day > target_day
           \/ (current_day = target_day /\ current_seconds >= target_seconds)
        /\ \/ Year(t) > Year(last_reset)
           \/ Month(t) > Month(last_reset)
           \/ /\ Month(t) = Month(last_reset)
              /\ \/ Day(last_reset) < target_day
                 \/ /\ Day(last_reset) = target_day
                    /\ SecondsOfDay(last_reset) < target_seconds

ShouldResetMonth(reset_time, t, last_reset) ==
    LET day_part == reset_time \div SECONDS_IN_DAY
        target_day == IF day_part < 28 THEN day_part ELSE 28
        target_seconds == reset_time % SECONDS_IN_DAY
        current_day == Day(t)
        current_seconds == SecondsOfDay(t)
    IN  /\ \/ current_day > target_day
           \/ (current_day = target_day /\ current_seconds >= target_seconds)
        /\ \/ Year(t) > Year(last_reset)
           \/ Month(t) > Month(last_reset)
           \/ /\ Month(t) = Month(last_reset)
              /\ \/ Day(last_reset) < target_day
                 \/ /\ Day(last_reset) = target_day
                    /\ SecondsOfDay(last_reset) < target_seconds

ShouldResetYear(reset_time, t, last_reset) ==
    LET target_day_of_year == reset_time \div SECONDS_IN_DAY
        target_seconds == reset_time % SECONDS_IN_DAY
        current_day_of_year == YDay(t)
        current_seconds == SecondsOfDay(t)
        last_reset_day_of_year == YDay(last_reset)
    IN  /\ \/ current_day_of_year > target_day_of_year
           \/ /\ current_day_of_year = target_day_of_year
              /\ current_seconds >= target_seconds
        /\ \/ Year(t) > Year(last_reset)
           \/ /\ Year(t) = Year(last_reset)
              /\ last_reset_day_of_year < target_day_of_year

\* should_reset of one loop iteration, the clock read as t
ShouldReset(row, t, last_reset) ==
    CASE row.data_limit_reset_strategy = "day" ->
            ShouldResetDay(row.reset_time, t, last_reset)
      [] row.data_limit_reset_strategy = "week" ->
            ShouldResetWeek(row.reset_time, t, last_reset)
      [] row.data_limit_reset_strategy = "month" ->
            ShouldResetMonth(row.reset_time, t, last_reset)
      [] row.data_limit_reset_strategy = "year" ->
            ShouldResetYear(row.reset_time, t, last_reset)
      [] OTHER -> FALSE

\* whether the loop appends a time-based object to filtered_nodes
Filtered(obj, t) == ShouldReset(obj.row, t, ObjLastReset(obj))

-----------------------------------------------------------------------------
(* Rows, ORM objects and sessions *)

\* a row of nodes as create_node leaves it
NewNode(strategy, reset_time, t) ==
    [status |-> "connecting",
     data_limit_reset_strategy |-> strategy,
     reset_time |-> reset_time,
     created_at |-> t,
     data_limit |-> 0,
     uplink |-> 0,
     downlink |-> 0,
     message |-> NULL,
     xray_version |-> NULL,
     node_version |-> NULL,
     last_status_change |-> t]

\* an ORM object: the row as loaded, with its usage_logs relationship
LoadObj(rows, logs, n) ==
    [row |-> rows[n],
     usage_logs |-> {logs[i] : i \in LogsOf(logs, n)}]

\* the tables of rows that belong to a node, besides the reset logs
UsageTables == {"node_user_usages", "node_usages", "node_stats"}

\* the three tables without a row
NoUsageRows == [tbl \in UsageTables |-> {}]

\* a session before its first statement, and a closed one: nothing loaded
NewSession == [pc |-> "idle", objs |-> <<>>, batch |-> {}]
ClosedSession == [pc |-> "closed", objs |-> <<>>, batch |-> {}]

\* the log row stamped two days before the insert
UsageLog_Backdated(n, row, t) ==
    [node_id |-> n, uplink |-> row.uplink, downlink |-> row.downlink,
     created_at |-> t - 2 * SECONDS_IN_DAY]

\* the log row built after the counters were set to zero
UsageLog_AfterZero(n, row, t) ==
    [node_id |-> n, uplink |-> 0, downlink |-> 0, created_at |-> t]

\* NodeUsageResetLogs(node_id, uplink, downlink) from the object, inserted at t
UsageLog(n, row, t) ==
    [node_id |-> n, uplink |-> row.uplink, downlink |-> row.downlink,
     created_at |-> t]

\* the assignments of a reset without the one that clears limited
ResetRow_KeepsStatus(row) ==
    [row EXCEPT !.uplink = 0, !.downlink = 0]

\* the assignments a reset makes on the object before the commit
ResetRow(row) ==
    [row EXCEPT !.uplink = 0,
                !.downlink = 0,
                !.status = IF @ = "limited" THEN "connecting" ELSE @]

\* a flush that writes every attribute of the object, changed or not
Flush_WholeRow(stored, loaded, changed) == changed

\* the flush: UPDATE of the attributes whose value differs from the loaded one
Flush(stored, loaded, changed) ==
    [f \in DOMAIN stored |->
        IF changed[f] # loaded[f] THEN changed[f] ELSE stored[f]]

\* the rows after a reset that zeroes the counters of every row of the
\* table, not only of the objects B
ResetNodes_EveryRow(s, B) ==
    [n \in DOMAIN nodes |->
        IF n \in B
        THEN Flush(nodes[n], sessions[s].objs[n],
                   ResetRow(sessions[s].objs[n]))
        ELSE [nodes[n] EXCEPT !.uplink = 0, !.downlink = 0]]

\* the rows after the commit of a reset of the objects B of session s
ResetNodes(s, B) ==
    [n \in DOMAIN nodes |->
        IF n \in B
        THEN Flush(nodes[n], sessions[s].objs[n],
                   ResetRow(sessions[s].objs[n]))
        ELSE nodes[n]]

\* the log table after a commit that adds no row for an object whose
\* counters are both zero
ResetLogs_SkipZero(s, B) ==
    LET order ==
            SortedSeq({n \in B : sessions[s].objs[n].uplink # 0
                                    \/ sessions[s].objs[n].downlink # 0})
    IN  usage_logs \o
        [i \in 1..Len(order) |->
            UsageLog(order[i], sessions[s].objs[order[i]], now)]

\* the log table after the commit: one row per object, in list order
ResetLogs(s, B) ==
    LET order == SortedSeq(B)
    IN  usage_logs \o
        [i \in 1..Len(order) |->
            UsageLog(order[i], sessions[s].objs[order[i]], now)]

-----------------------------------------------------------------------------
(* Operations *)

\* get_node_by_id: load one node and its usage_logs
GetNodeById(s, n) ==
    /\ sessions[s].pc = "idle"
    /\ n \in DOMAIN nodes
    /\ sessions' = [sessions EXCEPT ![s] =
            [pc |-> "loaded",
             objs |-> (n :> nodes[n]),
             batch |-> {n}]]
    /\ last_call' = [op |-> "other"]
    /\ UNCHANGED <<now, nodes, usage_logs, usage_tables>>

\* the clock inside the selection loop: the model lets it advance, by at most
\* MaxLoopLag seconds, onto a full hour only (the reset times of the model are
\* full hours, so no other advance can change a decision)
OnTheHour(t) == SecondsOfDay(t) % 3600 = 0

\* the objects whose iteration reads the clock: the time-based ones
TimeBased(rows, S) == {n \in S : rows[n].reset_time # -1}

\* get_nodes_to_reset_usage: the query at the instant now, then the loop,
\* which reads the clock once per time-based node
GetNodesToResetUsage(s) ==
    /\ sessions[s].pc = "idle"
    /\ LET cands ==
            {n \in DOMAIN nodes :
                /\ Eligible(nodes[n])
                /\ SqlDue(nodes[n], now,
                          LastResetTime(usage_logs, n, nodes[n]))}
       IN  \E reads \in [TimeBased(nodes, cands) -> now..(now + MaxLoopLag)] :
            /\ \A n \in DOMAIN reads : reads[n] = now \/ OnTheHour(reads[n])
            /\ LET loaded == [n \in cands |-> LoadObj(nodes, usage_logs, n)]
                   filtered ==
                        {n \in cands :
                            \/ loaded[n].row.reset_time = -1
                            \/ /\ n \in DOMAIN reads
                               /\ Filtered(loaded[n], reads[n])}
               IN  /\ sessions' = [sessions EXCEPT ![s] =
                            [pc |-> "selected",
                             objs |-> [n \in cands |-> loaded[n].row],
                             batch |-> filtered]]
                   /\ last_call' =
                        [op |-> "get_nodes_to_reset_usage", session |-> s,
                         sql_now |-> now, candidates |-> cands,
                         reads |-> reads, result |-> filtered]
            /\ now' = Max({now} \cup {reads[n] : n \in DOMAIN reads})
    /\ UNCHANGED <<nodes, usage_logs, usage_tables>>

\* a reset that commits object by object: when it fails, the first object
\* of the list is already committed
CommitReset_PerObject(s, B, ok, name) ==
    LET first == IF B = {} THEN {} ELSE {SortedSeq(B)[1]}
    IN  /\ last_call' =
            [op |-> name, session |-> s, batch |-> B, ok |-> ok,
             objs |-> sessions[s].objs, pre_nodes |-> nodes,
             pre_logs |-> usage_logs]
        /\ IF ok
           THEN /\ nodes' = ResetNodes(s, B)
                /\ usage_logs' = ResetLogs(s, B)
                /\ sessions' = [sessions EXCEPT
                        ![s].pc = "done",
                        ![s].objs =
                            [n \in DOMAIN @ |->
                                IF n \in B THEN ResetNodes(s, B)[n] ELSE @[n]]]
           ELSE /\ nodes' = ResetNodes(s, first)
                /\ usage_logs' = ResetLogs(s, first)
                /\ sessions' = [sessions EXCEPT ![s] = ClosedSession]
        /\ UNCHANGED <<now, usage_tables>>

\* the commit of a reset of the objects B: it succeeds, or it fails and the
\* transaction is rolled back and the session given up
CommitReset(s, B, ok, name) ==
    /\ last_call' =
        [op |-> name, session |-> s, batch |-> B, ok |-> ok,
         objs |-> sessions[s].objs, pre_nodes |-> nodes,
         pre_logs |-> usage_logs]
    /\ IF ok
       THEN /\ nodes' = ResetNodes(s, B)
            /\ usage_logs' = ResetLogs(s, B)
            /\ sessions' = [sessions EXCEPT
                    ![s].pc = "done",
                    ![s].objs =
                        [n \in DOMAIN @ |->
                            IF n \in B THEN ResetNodes(s, B)[n] ELSE @[n]]]
       ELSE /\ sessions' = [sessions EXCEPT ![s] = ClosedSession]
            /\ UNCHANGED <<nodes, usage_logs>>
    /\ UNCHANGED <<now, usage_tables>>

\* the store takes the rows of a reset only for nodes it holds: the UPDATE of
\* a row that is gone and the log row of a node that is gone are refused
StoreAccepts(B) == B \subseteq DOMAIN nodes

\* reset_node_usage(db, db_node)
ResetNodeUsage(s) ==
    /\ sessions[s].pc = "loaded"
    /\ \E ok \in BOOLEAN :
        /\ ok => StoreAccepts(sessions[s].batch)
        /\ CommitReset(s, sessions[s].batch, ok, "reset_node_usage")

\* reset_node_usage(db, db_node) called again on the object the call before
\* returned, with no step in between
ResetNodeUsageAgain(s) ==
    /\ sessions[s].pc = "done"
    /\ last_call.op = "reset_node_usage"
    /\ last_call.ok
    /\ last_call.session = s
    /\ \E ok \in BOOLEAN :
        LET B == sessions[s].batch
        IN  /\ ok => StoreAccepts(B)
            /\ last_call' =
                [op |-> "reset_node_usage_again", session |-> s,
                 batch |-> B, ok |-> ok, objs |-> sessions[s].objs,
                 pre_nodes |-> nodes, pre_logs |-> usage_logs,
                 first |-> last_call]
            /\ IF ok
               THEN /\ nodes' = ResetNodes(s, B)
                    /\ usage_logs' = ResetLogs(s, B)
                    /\ sessions' = [sessions EXCEPT
                            ![s].objs =
                                [n \in DOMAIN @ |->
                                    IF n \in B THEN ResetNodes(s, B)[n]
                                    ELSE @[n]]]
               ELSE /\ sessions' = [sessions EXCEPT ![s] = ClosedSession]
                    /\ UNCHANGED <<nodes, usage_logs>>
    /\ UNCHANGED <<now, usage_tables>>

\* bulk_reset_node_usage(db, nodes) on the list a selection returned
BulkResetNodeUsage(s) ==
    /\ sessions[s].pc = "selected"
    /\ \E ok \in BOOLEAN :
        /\ ok => StoreAccepts(sessions[s].batch)
        /\ CommitReset(s, sessions[s].batch, ok, "bulk_reset_node_usage")

\* the session is closed
Close(s) ==
    /\ sessions[s].pc \in {"loaded", "selected", "done"}
    /\ sessions' = [sessions EXCEPT ![s] = ClosedSession]
    /\ last_call' = [op |-> "other"]
    /\ UNCHANGED <<now, nodes, usage_logs, usage_tables>>

\* what a node reports with a status (the docstring's examples)
StatusReport(n, st) ==
    [node_id |-> n, status |-> st,
     message |-> IF st = "error" THEN "Connection failed" ELSE "",
     xray_version |-> IF st = "connected" THEN "1.8.0" ELSE "",
     node_version |-> IF st = "connected" THEN "0.1.0" ELSE ""]

\* the statuses the status pipeline writes in the model
ReportedStatus == {"connected", "limited"}

UpdateEntries == {StatusReport(n, st) : n \in NodeIds, st \in ReportedStatus}

UpdateLists == UNION {[1..k -> UpdateEntries] : k \in 0..MaxUpdates}

\* the statement without its WHERE clause: every row is updated
ApplyUpdate_EveryRow(rows, upd, t) ==
    [n \in DOMAIN rows |->
        [rows[n] EXCEPT !.status = upd.status,
                        !.message = upd.message,
                        !.xray_version = upd.xray_version,
                        !.node_version = upd.node_version,
                        !.last_status_change = t]]

\* the UPDATE of one entry, executed with the timestamp t: WHERE Node.id =
\* node_id matches the row of that id, or no row
ApplyUpdate(rows, upd, t) ==
    IF upd.node_id \in DOMAIN rows
    THEN [rows EXCEPT ![upd.node_id] =
            [@ EXCEPT !.status = upd.status,
                      !.message = upd.message,
                      !.xray_version = upd.xray_version,
                      !.node_version = upd.node_version,
                      !.last_status_change = t]]
    ELSE rows

RECURSIVE ApplyUpdates(_, _, _)
ApplyUpdates(rows, updates, t) ==
    IF updates = <<>> THEN rows
    ELSE ApplyUpdates(ApplyUpdate(rows, Head(updates), t), Tail(updates), t)

\* what bulk_update_node_status(db, updates) writes: nothing for an empty
\* list, else every entry's UPDATE with the one timestamp read before the
\* execution, and the commit
BulkUpdateWrites(updates) ==
    /\ IF updates = <<>>
       THEN UNCHANGED nodes
       ELSE nodes' = ApplyUpdates(nodes, updates, now)
    /\ UNCHANGED <<now, usage_logs, usage_tables, sessions>>

\* bulk_update_node_status(db, updates)
BulkUpdateNodeStatus ==
    \E updates \in UpdateLists :
        /\ BulkUpdateWrites(updates)
        /\ last_call' = [op |-> "other"]

\* bulk_update_node_status(db, updates), the call kept for inspection
BulkUpdateNodeStatusOf(updates) ==
    /\ BulkUpdateWrites(updates)
    /\ last_call' =
        [op |-> "bulk_update_node_status", updates |-> updates,
         pre_nodes |-> nodes, pre_logs |-> usage_logs,
         pre_tables |-> usage_tables]

\* update_node_status(db, db_node, status, ...): the UPDATE by id with the
\* clock's timestamp, and the commit
UpdateNodeStatus(n, st) ==
    /\ n \in DOMAIN nodes
    /\ nodes' = ApplyUpdate(nodes, StatusReport(n, st), now)
    /\ last_call' = [op |-> "other"]
    /\ UNCHANGED <<now, usage_logs, usage_tables, sessions>>

\* Node.used_traffic
used_traffic(row) == row.uplink + row.downlink

\* the for loop of modify_node: setattr for every key of
\* modify.model_dump(exclude_none=True)
SetAttrs(row, node_data) ==
    [f \in DOMAIN row |->
        IF f \in DOMAIN node_data THEN node_data[f] ELSE row[f]]

\* the assignments of modify_node after the loop
ModifyRow(row) ==
    LET cleared == [row EXCEPT !.xray_version = NULL,
                               !.message = NULL,
                               !.node_version = NULL]
    IN  IF cleared.status = "limited"
            /\ cleared.data_limit > used_traffic(cleared)
        THEN [cleared EXCEPT !.status = "connecting"]
        ELSE IF cleared.status \notin {"disabled", "limited"}
             THEN [cleared EXCEPT !.status = "connecting"]
             ELSE cleared

\* modify_node(db, db_node, modify) on the object session s loaded
ModifyNode(s, node_data) ==
    /\ sessions[s].pc = "loaded"
    /\ \E n \in sessions[s].batch, ok \in BOOLEAN :
        LET loaded == sessions[s].objs[n]
            changed == ModifyRow(SetAttrs(loaded, node_data))
        IN  /\ ok => StoreAccepts({n})
            /\ last_call' =
                [op |-> "modify_node", session |-> s, node_id |-> n,
                 ok |-> ok, node_data |-> node_data,
                 objs |-> sessions[s].objs, pre_nodes |-> nodes,
                 pre_logs |-> usage_logs]
            /\ IF ok
               THEN /\ nodes' =
                        [nodes EXCEPT ![n] = Flush(nodes[n], loaded, changed)]
                    /\ sessions' = [sessions EXCEPT
                            ![s].pc = "done",
                            ![s].objs =
                                (n :> Flush(nodes[n], loaded, changed))]
               ELSE /\ sessions' = [sessions EXCEPT ![s] = ClosedSession]
                    /\ UNCHANGED nodes
    /\ UNCHANGED <<now, usage_logs, usage_tables>>

\* the tables clear_usage_data takes
UsageTable == {"node_user_usages", "node_usages"}

\* _table_model
table_model(table) ==
    CASE table = "node_user_usages" -> "node_user_usages"
      [] table = "node_usages" -> "node_usages"
      [] OTHER -> "ValueError"

\* the WHERE clause of clear_usage_data: created_at >= start when start is
\* given, created_at < end when end is given
InRange(r, filters) ==
    /\ "start" \in DOMAIN filters => r.created_at >= filters.start
    /\ "end" \in DOMAIN filters => r.created_at < filters.end

\* clear_usage_data(db, table, start, end): the DELETE on the table's model
\* and the commit
ClearUsageData(table, filters) ==
    LET model == table_model(table)
    IN  /\ model # "ValueError"
        /\ last_call' =
            [op |-> "clear_usage_data", table |-> table,
             pre_tables |-> usage_tables, pre_logs |-> usage_logs]
        /\ usage_tables' =
            [tbl \in UsageTables |->
                IF tbl = model
                THEN {r \in usage_tables[tbl] : ~InRange(r, filters)}
                ELSE usage_tables[tbl]]
        /\ UNCHANGED <<now, nodes, usage_logs, sessions>>

\* traffic of a node is added to its counters (the usage recorder)
RecordUsage(n) ==
    /\ nodes[n].uplink < MaxUsage
    /\ nodes' = [nodes EXCEPT ![n].uplink = @ + 1, ![n].downlink = @ + 2]
    /\ last_call' = [op |-> "other"]
    /\ UNCHANGED <<now, usage_logs, usage_tables, sessions>>

\* the period of the driver in the model: the job is fired on full hours
TickPeriod == SECONDS_IN_DAY \div 24

\* the periodic driver: the run of the job in session s has ended, with its
\* session, and d seconds later the driver fires the job again, which opens
\* a session of its own
Tick(s, d) ==
    /\ sessions[s].pc \in {"done", "closed"}
    /\ now' = now + d
    /\ sessions' = [sessions EXCEPT ![s] = NewSession]
    /\ last_call' = [op |-> "tick", elapsed |-> d]
    /\ UNCHANGED <<nodes, usage_logs, usage_tables>>

-----------------------------------------------------------------------------
(* Creation and removal of nodes *)

\* the max_values of validate_reset_time_for_strategy
max_values ==
    [day |-> SECONDS_IN_DAY, week |-> SECONDS_IN_WEEK,
     month |-> SECONDS_IN_MONTH, year |-> SECONDS_IN_YEAR]

\* validate_reset_time_for_strategy: TRUE when it returns the model, FALSE
\* when it raises ValueError
validate_reset_time_for_strategy(strategy, reset_time) ==
    IF strategy = NULL THEN TRUE
    ELSE IF strategy = "no_reset" \/ reset_time = -1 THEN TRUE
    ELSE IF strategy \in DOMAIN max_values /\ reset_time >= max_values[strategy]
         THEN FALSE
         ELSE TRUE

\* NodeCreate(...) validated, then create_node: the row is inserted when the
\* model validates
CreateNode(n, strategy, reset_time) ==
    /\ n \notin DOMAIN nodes
    /\ LET accepted == validate_reset_time_for_strategy(strategy, reset_time)
       IN  /\ last_call' =
                [op |-> "create_node", node_id |-> n, strategy |-> strategy,
                 reset_time |-> reset_time, accepted |-> accepted]
           /\ nodes' =
                IF accepted
                THEN [m \in DOMAIN nodes \cup {n} |->
                        IF m = n THEN NewNode(strategy, reset_time, now)
                        ELSE nodes[m]]
                ELSE nodes
    /\ UNCHANGED <<now, usage_logs, usage_tables, sessions>>

\* the rows of a table or sequence of rows that do not refer to node n
RowsNotOf(rows, n) == {r \in rows : r.node_id # n}

\* the delete of the log rows without its WHERE clause
LogsNotOf_All(logs, n) == <<>>

LogsNotOf(logs, n) ==
    LET keep(l) == l.node_id # n
    IN  SelectSeq(logs, keep)

\* remove_node without the delete of the NodeStat rows
RemoveNode_KeepsStats(n) ==
    /\ n \in DOMAIN nodes
    /\ \E ok \in BOOLEAN :
        /\ last_call' =
            [op |-> "remove_node", node_id |-> n, ok |-> ok,
             pre_nodes |-> nodes, pre_logs |-> usage_logs,
             pre_tables |-> usage_tables]
        /\ IF ok
           THEN /\ usage_tables' =
                    [tbl \in UsageTables |->
                        IF tbl = "node_stats" THEN usage_tables[tbl]
                        ELSE RowsNotOf(usage_tables[tbl], n)]
                /\ usage_logs' = LogsNotOf(usage_logs, n)
                /\ nodes' = [m \in DOMAIN nodes \ {n} |-> nodes[m]]
           ELSE UNCHANGED <<nodes, usage_logs, usage_tables>>
    /\ UNCHANGED <<now, sessions>>

\* remove_node(db, db_node): the deletes by node_id and the commit, which
\* succeeds or fails
RemoveNode(n) ==
    /\ n \in DOMAIN nodes
    /\ \E ok \in BOOLEAN :
        /\ last_call' =
            [op |-> "remove_node", node_id |-> n, ok |-> ok,
             pre_nodes |-> nodes, pre_logs |-> usage_logs,
             pre_tables |-> usage_tables]
        /\ IF ok
           THEN /\ usage_tables' =
                    [tbl \in UsageTables |->
                        RowsNotOf(usage_tables[tbl], n)]
                /\ usage_logs' = LogsNotOf(usage_logs, n)
                /\ nodes' = [m \in DOMAIN nodes \ {n} |-> nodes[m]]
           ELSE UNCHANGED <<nodes, usage_logs, usage_tables>>
    /\ UNCHANGED <<now, sessions>>

-----------------------------------------------------------------------------
(* The concurrent specification: a reset session at a time, with the status
   pipeline and the usage recorder writing in between, at one instant at
   which the nodes with a reset strategy are due *)

\* 2024-01-01T02:00:00Z, a Monday
StartTime == 19723 * SECONDS_IN_DAY + 7200

\* the nodes were created a day and an hour earlier
CreatedTime == StartTime - SECONDS_IN_DAY - 3600

\* the reset policies of the nodes: node 1 resets daily by interval, node 2
\* daily at 01:00:00 or never
Policies ==
    {pol \in [NodeIds -> DataLimitResetStrategy \X {-1, 3600}] :
        /\ pol[1] = <<"day", -1>>
        /\ pol[2] \in {<<"day", 3600>>, <<"no_reset", -1>>}}

Init ==
    /\ now = StartTime
    /\ \E pol \in Policies :
        nodes = [n \in NodeIds |-> NewNode(pol[n][1], pol[n][2], CreatedTime)]
    /\ usage_logs = <<>>
    /\ usage_tables = NoUsageRows
    /\ sessions = [s \in Sessions |-> NewSession]
    /\ last_call = [op |-> "other"]

\* no other session is open: in this specification the sessions run one after
\* the other, and what interleaves with a session is the status pipeline and
\* the usage recorder
Alone(s) == \A o \in Sessions \ {s} : sessions[o].pc \in {"idle", "closed"}

Next ==
    \/ \E s \in ApiSessions, n \in NodeIds : Alone(s) /\ GetNodeById(s, n)
    \/ \E s \in JobSessions : Alone(s) /\ GetNodesToResetUsage(s)
    \/ \E s \in ApiSessions : ResetNodeUsage(s)
    \/ \E s \in JobSessions : BulkResetNodeUsage(s)
    \/ \E s \in Sessions : Close(s)
    \/ BulkUpdateNodeStatus
    \/ \E n \in NodeIds : RecordUsage(n)

Spec == Init /\ [][Next]_vars

-----------------------------------------------------------------------------
(* The single reset and its repetition: one session loads a node and resets
   it, once or twice in a row, while the status pipeline and the usage
   recorder write *)

NextTwice ==
    \/ \E s \in ApiSessions, n \in NodeIds : GetNodeById(s, n)
    \/ \E s \in ApiSessions : ResetNodeUsage(s)
    \/ \E s \in ApiSessions : ResetNodeUsageAgain(s)
    \/ \E s \in ApiSessions : Close(s)
    \/ BulkUpdateNodeStatus
    \/ \E n \in NodeIds : RecordUsage(n)

SpecTwice == Init /\ [][NextTwice]_vars

-----------------------------------------------------------------------------
(* Overlapping reset pipelines: the scheduled job and a single-node reset run
   in two sessions at once, on nodes that are due and hold traffic recorded
   before; no traffic is recorded meanwhile *)

InitOverlap ==
    /\ now = StartTime
    /\ \E pol \in Policies, u \in [NodeIds -> 1..MaxUsage] :
        nodes =
            [n \in NodeIds |->
                [NewNode(pol[n][1], pol[n][2], CreatedTime)
                    EXCEPT !.uplink = u[n], !.downlink = 2 * u[n]]]
    /\ usage_logs = <<>>
    /\ usage_tables = NoUsageRows
    /\ sessions = [s \in Sessions |-> NewSession]
    /\ last_call = [op |-> "other"]

NextOverlap ==
    \/ \E s \in ApiSessions, n \in NodeIds : GetNodeById(s, n)
    \/ \E s \in JobSessions : GetNodesToResetUsage(s)
    \/ \E s \in ApiSessions : ResetNodeUsage(s)
    \/ \E s \in JobSessions : BulkResetNodeUsage(s)
    \/ \E s \in Sessions : Close(s)
    \/ BulkUpdateNodeStatus

SpecOverlap == InitOverlap /\ [][NextOverlap]_vars

-----------------------------------------------------------------------------
(* Administration: nodes with rows in every table that refers to them are
   removed, and nodes are created from validated input *)

\* c rows of node n in a table, with ids of their own
RowsOf(n, c) ==
    {[id |-> (n - 1) * (MaxRows + 1) + i, node_id |-> n,
      created_at |-> CreatedTime + i] : i \in 1..c}

\* c reset log rows of node n
LogRowsOf(n, c) ==
    [i \in 1..c |->
        [node_id |-> n, uplink |-> i, downlink |-> 2 * i,
         created_at |-> CreatedTime + i]]

RECURSIVE Flatten(_)
\* the concatenation of a sequence of sequences
Flatten(seqs) ==
    IF seqs = <<>> THEN <<>> ELSE Head(seqs) \o Flatten(Tail(seqs))

\* the reset_time values offered to the validation: below -1, -1, 0, and the
\* last valid and first invalid value of every strategy
ResetTimeInputs ==
    {-2, -1, 0}
    \cup UNION {{max_values[st] - 1, max_values[st]} : st \in DOMAIN max_values}

\* Node 1 has any number of rows, up to MaxRows, in each of the four tables;
\* every other node has the same number, none or one, in all of them
InitAdmin ==
    /\ now = StartTime
    /\ \E pol \in Policies,
          k \in [UsageTables \cup {"node_usage_reset_logs"} -> 0..MaxRows],
          j \in 0..1 :
        LET count(tbl, n) == IF n = 1 THEN k[tbl] ELSE j
            ids == SortedSeq(NodeIds)
        IN  /\ nodes =
                [n \in NodeIds |-> NewNode(pol[n][1], pol[n][2], CreatedTime)]
            /\ usage_tables =
                [tbl \in UsageTables |->
                    UNION {RowsOf(n, count(tbl, n)) : n \in NodeIds}]
            /\ usage_logs =
                Flatten([i \in 1..Len(ids) |->
                    LogRowsOf(ids[i], count("node_usage_reset_logs", ids[i]))])
    /\ sessions = [s \in Sessions |-> NewSession]
    /\ last_call = [op |-> "other"]

NextAdmin ==
    \/ \E n \in NodeIds : RemoveNode(n)
    \/ \E n \in NodeIds, strategy \in DataLimitResetStrategy,
          reset_time \in ResetTimeInputs :
            CreateNode(n, strategy, reset_time)

SpecAdmin == InitAdmin /\ [][NextAdmin]_vars

-----------------------------------------------------------------------------
(* The week scenario: nodes created on Monday 2024-01-01T00:00:00Z with the
   week strategy and reset_time = 3 * 86400 + 3600, never reset, looked at on
   Wednesday 2024-01-03T02:00:00Z; node 1 is connected *)

InitWeek ==
    /\ now = (19723 + 2) * SECONDS_IN_DAY + 7200
    /\ nodes =
        [n \in NodeIds |->
            [NewNode("week", 3 * SECONDS_IN_DAY + 3600, 19723 * SECONDS_IN_DAY)
                EXCEPT !.status = IF n = 1 THEN "connected" ELSE @]]
    /\ usage_logs = <<>>
    /\ usage_tables = NoUsageRows
    /\ sessions = [s \in Sessions |-> NewSession]
    /\ last_call = [op |-> "other"]

SpecWeek == InitWeek /\ [][Next]_vars

-----------------------------------------------------------------------------
(* The selection on its own: every policy, status and pair of instants of a
   grid, then one call of get_nodes_to_reset_usage *)

\* the instant s seconds into the day d days after 2024-01-01
At(d, s) == (19723 + d) * SECONDS_IN_DAY + s

\* days of the grid, counted from Monday 2024-01-01: the first days of 2024,
\* one and two weeks later, the 28th to 31st, February 1st and 29th, the
\* turn of the next year; and the first and last day of December 2023
GridDays ==
    {-31, -1, 0, 1, 2, 6, 7, 8, 14, 27, 28, 30, 31, 59, 365, 366}

\* seconds of the day at which the node was last reset, and at which the
\* selection runs (00:59:59 is one second before a reset time)
LastSeconds == {0, 3600}
NowSeconds == {0, 3599, 3600, 7200}

LastGrid == {At(d, sec) : d \in GridDays, sec \in LastSeconds}
NowGrid == {At(d, sec) : d \in GridDays, sec \in NowSeconds}

\* the first instant of the grid
FirstTime == At(-31, 0)

\* strategy and reset_time: interval mode, and targets at 01:00:00 of the
\* first and of later days of the cycle
DuePolicies ==
    ({"no_reset", "day", "week", "month", "year"} \X {-1})
    \cup ({"no_reset"} \X {3600})
    \cup ({"day"} \X {0, 3600, 82800})
    \cup ({"week"} \X {0, 3600, 2 * SECONDS_IN_DAY + 3600,
                       3 * SECONDS_IN_DAY + 3600})
    \cup ({"month"} \X {3600, SECONDS_IN_DAY + 3600, 15 * SECONDS_IN_DAY,
                        28 * SECONDS_IN_DAY + 3600, 30 * SECONDS_IN_DAY + 3600})
    \cup ({"year"} \X {SECONDS_IN_DAY + 3600, 60 * SECONDS_IN_DAY})

\* Both nodes have the same policy and were last reset at the same instant:
\* without a log row they were created then; with log rows they were
\* created and first reset at the first instant of the grid.  Node 1 has any
\* status (connected when it has log rows), node 2 is limited.
InitDue ==
    /\ \E pol \in DuePolicies, st \in NodeStatus, last \in LastGrid,
          t \in NowGrid, logged \in BOOLEAN :
        /\ last <= t
        /\ logged => st = "connected"
        /\ now = t
        /\ nodes =
            [n \in NodeIds |->
                [NewNode(pol[1], pol[2], IF logged THEN FirstTime ELSE last)
                    EXCEPT !.status = IF n = 1 THEN st ELSE "limited",
                           !.uplink = 1,
                           !.downlink = 2]]
        /\ usage_logs =
            IF logged
            THEN <<[node_id |-> 1, uplink |-> 1, downlink |-> 2,
                    created_at |-> FirstTime],
                   [node_id |-> 2, uplink |-> 1, downlink |-> 2,
                    created_at |-> FirstTime],
                   [node_id |-> 1, uplink |-> 1, downlink |-> 2,
                    created_at |-> last],
                   [node_id |-> 2, uplink |-> 1, downlink |-> 2,
                    created_at |-> last]>>
            ELSE <<>>
    /\ usage_tables = NoUsageRows
    /\ sessions = [s \in Sessions |-> NewSession]
    /\ last_call = [op |-> "other"]

NextDue ==
    \E s \in JobSessions : GetNodesToResetUsage(s)

SpecDue == InitDue /\ [][NextDue]_vars

-----------------------------------------------------------------------------
(* The selection in interval mode, by elapsed time: the last reset lies a
   given number of seconds before now, at every hour of the day *)

\* 23 and 25 hours; a week less a second, and a week
ElapsedGrid ==
    {23 * 3600, 25 * 3600, 7 * SECONDS_IN_DAY - 1, 7 * SECONDS_IN_DAY}

\* the times of day of now: every full hour, and the first and last second
TimesOfDay == {h * 3600 : h \in 0..23} \cup {1, SECONDS_IN_DAY - 1}

\* now is on Monday 2024-01-08 or the day after
ElapsedNowGrid == {At(d, sec) : d \in {7, 8}, sec \in TimesOfDay}

\* Both nodes are in interval mode with the same strategy, day or week, and
\* were last reset the same number of seconds before now: created then, or
\* created at the first instant of the grid and with log rows.  Node 1 has
\* any status (connected when it has log rows), node 2 is limited.
InitElapsed ==
    /\ \E strategy \in {"day", "week"}, st \in NodeStatus,
          t \in ElapsedNowGrid, e \in ElapsedGrid, logged \in BOOLEAN :
        /\ logged => st = "connected"
        /\ now = t
        /\ nodes =
            [n \in NodeIds |->
                [NewNode(strategy, -1, IF logged THEN FirstTime ELSE t - e)
                    EXCEPT !.status = IF n = 1 THEN st ELSE "limited",
                           !.uplink = 1,
                           !.downlink = 2]]
        /\ usage_logs =
            IF logged
            THEN <<[node_id |-> 1, uplink |-> 1, downlink |-> 2,
                    created_at |-> FirstTime],
                   [node_id |-> 2, uplink |-> 1, downlink |-> 2,
                    created_at |-> t - e],
                   [node_id |-> 1, uplink |-> 1, downlink |-> 2,
                    created_at |-> t - e]>>
            ELSE <<>>
    /\ usage_tables = NoUsageRows
    /\ sessions = [s \in Sessions |-> NewSession]
    /\ last_call = [op |-> "other"]

SpecElapsed == InitElapsed /\ [][NextDue]_vars

-----------------------------------------------------------------------------
(* The pipeline under a driver that fires at every instant of the clock of
   the model, the full hours: the job selects and resets in one session and
   the store is available.  The nodes have the week strategy in absolute
   mode and are followed over MaxWeeks weeks from Monday 2024-01-01. *)

MaxWeeks == 6       \* weeks the weekly pipeline is followed for

\* the targets of the week: Monday 01:00:00 and Thursday 01:00:00
WeekTargets == {3600, 3 * SECONDS_IN_DAY + 3600}

\* the nodes were created at the first instant, Monday 00:00:00
InitWeekly ==
    /\ now = At(0, 0)
    /\ \E rt \in [NodeIds -> WeekTargets] :
        nodes = [n \in NodeIds |-> NewNode("week", rt[n], At(0, 0))]
    /\ usage_logs = <<>>
    /\ usage_tables = NoUsageRows
    /\ sessions = [s \in Sessions |-> NewSession]
    /\ last_call = [op |-> "other"]

NextWeekly ==
    \/ \E s \in JobSessions : GetNodesToResetUsage(s)
    \/ \E s \in JobSessions : BulkResetNodeUsage(s) /\ last_call'.ok
    \/ \E s \in JobSessions, d \in {0, TickPeriod} :
        /\ now + d <= At(7 * MaxWeeks, 0)
        /\ Tick(s, d)

SpecWeekly == InitWeekly /\ [][NextWeekly]_vars

-----------------------------------------------------------------------------
(* The pipeline with a store that may be unavailable at the batch commit: the
   job runs at every full hour from Tuesday 2024-01-02T22:00:00Z to the next
   day at 02:00:00, over midnight and the reset time 01:00:00 of node 2.
   Both nodes were created on the Monday, hold traffic, and node 2 is
   limited; the nodes with a reset strategy are due at the first run. *)

RetryStart == At(1, 22 * 3600)
RetryEnd == At(2, 2 * 3600)

InitRetry ==
    /\ now = RetryStart
    /\ \E pol \in Policies :
        nodes =
            [n \in NodeIds |->
                [NewNode(pol[n][1], pol[n][2], At(0, 0))
                    EXCEPT !.status = IF n = 2 THEN "limited" ELSE @,
                           !.uplink = 1,
                           !.downlink = 2]]
    /\ usage_logs = <<>>
    /\ usage_tables = NoUsageRows
    /\ sessions = [s \in Sessions |-> NewSession]
    /\ last_call = [op |-> "other"]

\* the driver fires again at once, or after its period
TickRetry(s, d) ==
    /\ now + d <= RetryEnd
    /\ Tick(s, d)

\* the commit of the batch with the store available
BulkResetAvailable(s) == BulkResetNodeUsage(s) /\ last_call'.ok

NextRetry ==
    \/ \E s \in JobSessions : GetNodesToResetUsage(s)
    \/ \E s \in JobSessions : BulkResetNodeUsage(s)
    \/ \E s \in JobSessions, d \in {0, TickPeriod} : TickRetry(s, d)

\* fair ticking: the driver keeps firing and the clock keeps advancing, a
\* fired job runs to its commit, and the store, unavailable at times, is
\* available again and again
FairRetry ==
    \A s \in JobSessions :
        /\ WF_vars(TickRetry(s, 0))
        /\ SF_vars(TickRetry(s, TickPeriod))
        /\ WF_vars(GetNodesToResetUsage(s))
        /\ SF_vars(BulkResetAvailable(s))

SpecRetry == InitRetry /\ [][NextRetry]_vars /\ FairRetry

-----------------------------------------------------------------------------
(* Removal under the scheduled job: nodes that are due and hold traffic are
   selected by the job and removed by an administrator, in any order, before
   the job commits its batch *)

NextRemoval ==
    \/ \E s \in JobSessions : GetNodesToResetUsage(s)
    \/ \E s \in JobSessions : BulkResetNodeUsage(s)
    \/ \E n \in NodeIds : RemoveNode(n)

SpecRemoval == InitOverlap /\ [][NextRemoval]_vars

-----------------------------------------------------------------------------
(* Every writing operation of the module: nodes with a log row each, one of
   them with a row in each usage table, are selected, reset, modified,
   reported, removed and created again, and the usage tables are cleared *)

\* the modifications offered to modify_node
CrudModifications == {[data_limit |-> 0]}

\* the ranges offered to clear_usage_data: everything, and the rows created
\* after the first row of a node
ClearFilters == {<<>>, [start |-> CreatedTime + 2]}

\* the node the administrator removes and creates again
Removable == {n \in NodeIds : n > 1}

InitCrud ==
    /\ now = StartTime
    /\ \E pol \in Policies :
        nodes =
            [n \in NodeIds |->
                [NewNode(pol[n][1], pol[n][2], CreatedTime)
                    EXCEPT !.uplink = 1, !.downlink = 2]]
    /\ usage_logs = Flatten([n \in 1..Cardinality(NodeIds) |-> LogRowsOf(n, 1)])
    /\ usage_tables = [tbl \in UsageTables |-> RowsOf(1, 1)]
    /\ sessions = [s \in Sessions |-> NewSession]
    /\ last_call = [op |-> "other"]

NextCrud ==
    \/ \E s \in ApiSessions, n \in NodeIds : Alone(s) /\ GetNodeById(s, n)
    \/ \E s \in JobSessions : Alone(s) /\ GetNodesToResetUsage(s)
    \/ \E s \in ApiSessions : ResetNodeUsage(s)
    \/ \E s \in JobSessions : BulkResetNodeUsage(s)
    \/ \E s \in ApiSessions, node_data \in CrudModifications :
            ModifyNode(s, node_data)
    \/ \E s \in Sessions : Close(s)
    \/ BulkUpdateNodeStatus
    \/ \E n \in NodeIds : UpdateNodeStatus(n, "connected")
    \/ \E n \in Removable : RemoveNode(n)
    \/ \E n \in Removable : CreateNode(n, "day", -1)
    \/ \E table \in UsageTable, filters \in ClearFilters :
            ClearUsageData(table, filters)

SpecCrud == InitCrud /\ [][NextCrud]_vars

-----------------------------------------------------------------------------
(* The job fired again at once: for every policy and instant of the grid the
   job selects and resets, and the driver fires it again with no time
   elapsed.  Both nodes have the same policy, were created at the first
   instant of the grid and hold traffic; node 2 is limited. *)

InitRefire ==
    /\ \E pol \in DuePolicies, t \in NowGrid :
        /\ now = t
        /\ nodes =
            [n \in NodeIds |->
                [NewNode(pol[1], pol[2], FirstTime)
                    EXCEPT !.status = IF n = 1 THEN "connected" ELSE "limited",
                           !.uplink = 1,
                           !.downlink = 2]]
    /\ usage_logs = <<>>
    /\ usage_tables = NoUsageRows
    /\ sessions = [s \in Sessions |-> NewSession]
    /\ last_call = [op |-> "other"]

NextRefire ==
    \/ \E s \in JobSessions : GetNodesToResetUsage(s)
    \/ \E s \in JobSessions : BulkResetNodeUsage(s)
    \/ \E s \in JobSessions : Tick(s, 0)

SpecRefire == InitRefire /\ [][NextRefire]_vars

-----------------------------------------------------------------------------
(* The daily pipeline: nodes on the day strategy in absolute mode, created
   on Monday 00:00:00, under a driver that fires the job again at once,
   after its period, or a second short of a day later; the store is
   available and nothing but the job resets a node *)

MaxDays == 2        \* days the daily pipeline is followed for

\* the targets of the day: 01:00:00 and 23:00:00
DayTargets == {3600, 23 * 3600}

DailySteps == {0, TickPeriod, SECONDS_IN_DAY - 1}

InitDaily ==
    /\ now = At(1, 0)
    /\ \E rt \in [NodeIds -> DayTargets] :
        nodes = [n \in NodeIds |-> NewNode("day", rt[n], At(0, 0))]
    /\ usage_logs = <<>>
    /\ usage_tables = NoUsageRows
    /\ sessions = [s \in Sessions |-> NewSession]
    /\ last_call = [op |-> "other"]

NextDaily ==
    \/ \E s \in JobSessions : GetNodesToResetUsage(s)
    \/ \E s \in JobSessions : BulkResetNodeUsage(s) /\ last_call'.ok
    \/ \E s \in JobSessions, d \in DailySteps :
        /\ now + d <= At(1 + MaxDays, 0)
        /\ Tick(s, d)

SpecDaily == InitDaily /\ [][NextDaily]_vars

-----------------------------------------------------------------------------
(* Modification of nodes: nodes of every status, with 3 bytes of used
   traffic, are loaded and modified by the API while the status pipeline
   reports on them.  A limited node has a data limit its traffic has
   reached. *)

\* the modifications offered to modify_node: the fields that are not None
Modifications ==
    {<<>>,
     [data_limit |-> 0],
     [data_limit |-> 3],
     [data_limit |-> 4],
     [status |-> "disabled"],
     [status |-> "connected"],
     [status |-> "limited", data_limit |-> 4]}

\* the data limits a node of a status starts with
StartLimits(st) == IF st = "limited" THEN {2, 3} ELSE {0, 5}

InitModify ==
    /\ now = StartTime
    /\ \E st \in [NodeIds -> NodeStatus] :
        \E lim \in [NodeIds -> 0..5] :
            /\ \A n \in NodeIds : lim[n] \in StartLimits(st[n])
            /\ nodes =
                [n \in NodeIds |->
                    [NewNode("no_reset", -1, CreatedTime)
                        EXCEPT !.status = st[n],
                               !.data_limit = lim[n],
                               !.uplink = 1,
                               !.downlink = 2]]
    /\ usage_logs = <<>>
    /\ usage_tables = NoUsageRows
    /\ sessions = [s \in Sessions |-> NewSession]
    /\ last_call = [op |-> "other"]

NextModify ==
    \/ \E s \in ApiSessions, n \in NodeIds : Alone(s) /\ GetNodeById(s, n)
    \/ \E s \in ApiSessions, node_data \in Modifications :
            ModifyNode(s, node_data)
    \/ \E s \in ApiSessions : Close(s)
    \/ \E n \in NodeIds, st \in {"connected", "error"} :
            UpdateNodeStatus(n, st)

SpecModify == InitModify /\ [][NextModify]_vars

-----------------------------------------------------------------------------
(* The status pipeline: lists of up to two reports, for nodes that exist
   and for ids that do not, are written while an administrator removes
   nodes and creates them again.  Every node starts with traffic and a log
   row, node 1 with a row in each usage table. *)

StatusLists == UNION {[1..k -> UpdateEntries] : k \in 0..2}

InitStatus ==
    /\ now = StartTime
    /\ \E pol \in Policies :
        nodes =
            [n \in NodeIds |->
                [NewNode(pol[n][1], pol[n][2], CreatedTime)
                    EXCEPT !.uplink = 1, !.downlink = 2]]
    /\ usage_logs = Flatten([n \in 1..Cardinality(NodeIds) |-> LogRowsOf(n, 1)])
    /\ usage_tables = [tbl \in UsageTables |-> RowsOf(1, 1)]
    /\ sessions = [s \in Sessions |-> NewSession]
    /\ last_call = [op |-> "other"]

NextStatus ==
    \/ \E updates \in StatusLists : BulkUpdateNodeStatusOf(updates)
    \/ \E n \in NodeIds : RemoveNode(n)
    \/ \E n \in NodeIds : CreateNode(n, "day", -1)

SpecStatus == InitStatus /\ [][NextStatus]_vars

-----------------------------------------------------------------------------
(* What the last reset saw and did *)

ResetOps == {"reset_node_usage", "bulk_reset_node_usage"}

\* the last step was the commit of a reset, and it succeeded
Committed == last_call.op \in ResetOps /\ last_call.ok

\* the log rows of node n that the last reset inserted
NewLogsOf(n) ==
    {i \in (Len(last_call.pre_logs) + 1)..Len(usage_logs) :
        usage_logs[i].node_id = n}

\* the rows that were there before the last reset are still there, unchanged
OldLogsKept ==
    /\ Len(usage_logs) >= Len(last_call.pre_logs)
    /\ SubSeq(usage_logs, 1, Len(last_call.pre_logs)) = last_call.pre_logs

\* the resetting session's object of n was still equal to the stored row
Fresh(n) == last_call.objs[n] = last_call.pre_nodes[n]

\* the stored counters of n were those the session had loaded
FreshCounters(n) ==
    /\ last_call.objs[n].uplink = last_call.pre_nodes[n].uplink
    /\ last_call.objs[n].downlink = last_call.pre_nodes[n].downlink

\* nothing was written by the last reset
NothingWritten ==
    /\ nodes = last_call.pre_nodes
    /\ usage_logs = last_call.pre_logs

-----------------------------------------------------------------------------
(* Claims *)

\* C1: reset_node_usage on a node whose stored row has counters (u, d) and
\* status s commits, in one step, exactly one new log row (node, u, d), zero
\* counters and status connecting if s was limited, s otherwise; the other
\* nodes and the older log rows are untouched.  No state shows the zeroed
\* counters without the row: a failed commit writes nothing at all.
C1_ResetOneAtomic ==
    last_call.op = "reset_node_usage" =>
        IF last_call.ok
        THEN \A n \in last_call.batch :
                LET pre == last_call.pre_nodes[n]
                IN  /\ OldLogsKept
                    /\ Len(usage_logs) = Len(last_call.pre_logs) + 1
                    /\ Cardinality(NewLogsOf(n)) = 1
                    /\ \A m \in NodeIds \ {n} :
                            nodes[m] = last_call.pre_nodes[m]
                    /\ Fresh(n) =>
                        /\ \A i \in NewLogsOf(n) :
                            /\ usage_logs[i].uplink = pre.uplink
                            /\ usage_logs[i].downlink = pre.downlink
                        /\ nodes[n] =
                            [pre EXCEPT
                                !.uplink = 0,
                                !.downlink = 0,
                                !.status = IF pre.status = "limited"
                                           THEN "connecting"
                                           ELSE pre.status]
        ELSE NothingWritten

\* C1 witness: a limited node with traffic on its counters has just been
\* reset by reset_node_usage
C1_Witness ==
    /\ last_call.op = "reset_node_usage"
    /\ last_call.ok
    /\ \E n \in last_call.batch :
        /\ Fresh(n)
        /\ last_call.pre_nodes[n].status = "limited"
        /\ last_call.pre_nodes[n].uplink > 0
        /\ nodes[n].status = "connecting"

\* C2: every committed reset, single or batch, inserts for each of its nodes
\* exactly one log row, and whenever it has replaced the stored counters by
\* zero that row holds the stored counters it replaced, whatever was
\* recorded between the load and the commit
C2_NeverLossy ==
    Committed =>
        \A n \in last_call.batch :
            /\ Cardinality(NewLogsOf(n)) = 1
            /\ (nodes[n].uplink = 0 /\ nodes[n].downlink = 0) =>
                \A i \in NewLogsOf(n) :
                    /\ usage_logs[i].uplink = last_call.pre_nodes[n].uplink
                    /\ usage_logs[i].downlink = last_call.pre_nodes[n].downlink

\* C3: bulk_reset_node_usage is all or nothing.  If the commit fails, no
\* counter, no status and no log row has changed; if it succeeds, every node
\* of the list has exactly one new log row, and every node whose stored row
\* was as loaded has zero counters and is not limited.
C3_BatchAtomic ==
    last_call.op = "bulk_reset_node_usage" =>
        IF last_call.ok
        THEN /\ OldLogsKept
             /\ Len(usage_logs) =
                    Len(last_call.pre_logs) + Cardinality(last_call.batch)
             /\ \A n \in last_call.batch :
                    /\ Cardinality(NewLogsOf(n)) = 1
                    /\ Fresh(n) =>
                        /\ nodes[n].uplink = 0
                        /\ nodes[n].downlink = 0
                        /\ nodes[n].status # "limited"
             /\ \A n \in NodeIds \ last_call.batch :
                    nodes[n] = last_call.pre_nodes[n]
        ELSE NothingWritten

\* C3 witness: the commit of a batch of two nodes, one of them limited and
\* with traffic on its counters, has just failed
C3_Witness ==
    /\ last_call.op = "bulk_reset_node_usage"
    /\ ~last_call.ok
    /\ Cardinality(last_call.batch) = 2
    /\ \E n \in last_call.batch :
        /\ nodes[n].status = "limited"
        /\ nodes[n].uplink > 0

\* C4: after a committed reset the stored node has zero counters and is not
\* limited, whatever status was written between the load and the commit
\* (no traffic was recorded in between)
C4_NotLimitedAfterReset ==
    Committed =>
        \A n \in last_call.batch :
            FreshCounters(n) =>
                /\ nodes[n].uplink = 0
                /\ nodes[n].downlink = 0
                /\ nodes[n].status # "limited"

\* C6 as stated: no selection and no reset, single or batch, changes the
\* counters, the status or the log rows of a node whose strategy is no_reset
C6_NoResetNeverTouched ==
    Committed =>
        \A n \in NodeIds :
            nodes[n].data_limit_reset_strategy = "no_reset" =>
                /\ nodes[n] = last_call.pre_nodes[n]
                /\ NewLogsOf(n) = {}

\* C6 amended: get_nodes_to_reset_usage never returns a node whose strategy
\* is no_reset, and bulk_reset_node_usage on the returned list leaves the
\* counters, the status and the log rows of every such node unchanged; only
\* reset_node_usage called on the node itself resets it
C6_NoResetNeverSelected ==
    /\ last_call.op = "get_nodes_to_reset_usage" =>
        \A n \in last_call.result :
            nodes[n].data_limit_reset_strategy # "no_reset"
    /\ \A s \in JobSessions :
        \A n \in sessions[s].batch :
            sessions[s].objs[n].data_limit_reset_strategy # "no_reset"
    /\ Committed =>
        \A n \in NodeIds :
            /\ nodes[n].data_limit_reset_strategy = "no_reset"
            /\ ~(last_call.op = "reset_node_usage" /\ n \in last_call.batch)
            => /\ nodes[n] = last_call.pre_nodes[n]
               /\ NewLogsOf(n) = {}

\* C6 witness: a batch reset has just committed while a node with strategy
\* no_reset, limited and with traffic on its counters, stayed as it was
C6_Witness ==
    /\ last_call.op = "bulk_reset_node_usage"
    /\ last_call.ok
    /\ last_call.batch # {}
    /\ \E n \in NodeIds :
        /\ nodes[n].data_limit_reset_strategy = "no_reset"
        /\ nodes[n].status = "limited"
        /\ nodes[n].uplink > 0

-----------------------------------------------------------------------------
(* What the last selection saw and returned *)

\* the last step was a call of get_nodes_to_reset_usage; the tables are as
\* the call found them
Selected == last_call.op = "get_nodes_to_reset_usage"

\* the status of n lets it be selected
StatusSelectable(n) ==
    nodes[n].status \in {"connecting", "connected", "error", "limited"}

\* the last-reset timestamp of n: the created_at of its latest log row, or
\* of the node when it has no log row
LastResetAt(n) ==
    LET mine == {usage_logs[i].created_at :
                    i \in {j \in 1..Len(usage_logs) :
                                usage_logs[j].node_id = n}}
    IN  IF mine = {}
        THEN nodes[n].created_at
        ELSE CHOOSE t \in mine : \A u \in mine : u <= t

\* N of the interval mode
IntervalDays(strategy) ==
    CASE strategy = "day" -> 1
      [] strategy = "week" -> 7
      [] strategy = "month" -> 30
      [] strategy = "year" -> 365

\* interval mode: the calendar-day difference has reached N
DueByInterval(n, t) ==
    (t \div SECONDS_IN_DAY) - (LastResetAt(n) \div SECONDS_IN_DAY)
        >= IntervalDays(nodes[n].data_limit_reset_strategy)

\* absolute day: the reset time of today is reached and the last reset was
\* on an earlier date or before the reset time of its day
DueByDay(n, t) ==
    LET rt == nodes[n].reset_time
        last == LastResetAt(n)
    IN  /\ t % SECONDS_IN_DAY >= rt
        /\ \/ t \div SECONDS_IN_DAY > last \div SECONDS_IN_DAY
           \/ last % SECONDS_IN_DAY < rt

\* absolute week
DueByWeek(n, t) ==
    LET rt == nodes[n].reset_time
        last == LastResetAt(n)
        current_week_seconds ==
            Weekday(t) * SECONDS_IN_DAY + (t % SECONDS_IN_DAY)
        last_week_seconds ==
            Weekday(last) * SECONDS_IN_DAY + (last % SECONDS_IN_DAY)
        days_diff == (t \div SECONDS_IN_DAY) - (last \div SECONDS_IN_DAY)
    IN  /\ days_diff >= 7
        /\ current_week_seconds >= rt
        /\ (last_week_seconds < rt \/ days_diff > 7)

\* absolute month
DueByMonth(n, t) ==
    LET rt == nodes[n].reset_time
        last == LastResetAt(n)
        days == rt \div SECONDS_IN_DAY
        target_day == IF days <= 28 THEN days ELSE 28
        target_seconds == rt % SECONDS_IN_DAY
        reached ==
            \/ Day(t) > target_day
            \/ Day(t) = target_day /\ t % SECONDS_IN_DAY >= target_seconds
        predates ==
            \/ Year(t) > Year(last)
            \/ Month(t) > Month(last)
            \/ /\ Month(t) = Month(last)
               /\ \/ Day(last) < target_day
                  \/ /\ Day(last) = target_day
                     /\ last % SECONDS_IN_DAY < target_seconds
    IN  reached /\ predates

\* n has a reset strategy in absolute mode with the strategy given
Absolute(n, strategy) ==
    /\ nodes[n].data_limit_reset_strategy = strategy
    /\ nodes[n].reset_time >= 0

\* the rule of n's strategy and mode says due
Due(n) ==
    LET strategy == nodes[n].data_limit_reset_strategy
    IN  /\ strategy # "no_reset"
        /\ IF nodes[n].reset_time = -1
           THEN DueByInterval(n, last_call.sql_now)
           ELSE /\ n \in DOMAIN last_call.reads
                /\ CASE strategy = "day" -> DueByDay(n, last_call.reads[n])
                     [] strategy = "week" -> DueByWeek(n, last_call.reads[n])
                     [] strategy = "month" -> DueByMonth(n, last_call.reads[n])
                     [] strategy = "year" ->
                            ShouldResetYear(nodes[n].reset_time,
                                            last_call.reads[n], LastResetAt(n))

\* C5: get_nodes_to_reset_usage returns only nodes with a status among
\* connecting, connected, error, limited and a strategy other than no_reset;
\* it never returns a disabled node; it returns a limited node that is due
C5_SelectionFilter ==
    Selected =>
        /\ \A n \in last_call.result :
            /\ StatusSelectable(n)
            /\ nodes[n].data_limit_reset_strategy # "no_reset"
        /\ \A n \in NodeIds :
            nodes[n].status = "disabled" => n \notin last_call.result
        /\ \A n \in NodeIds :
            (nodes[n].status = "limited" /\ Due(n)) => n \in last_call.result

\* C5 witness: of two nodes with the same policy and last reset, the limited
\* one was returned and the disabled one was not
C5_Witness ==
    /\ Selected
    /\ \E n, m \in NodeIds :
        /\ nodes[n].status = "limited"
        /\ n \in last_call.result
        /\ nodes[m].status = "disabled"
        /\ m \notin last_call.result
        /\ nodes[m].data_limit_reset_strategy =
                nodes[n].data_limit_reset_strategy

\* C7: in interval mode (reset_time = -1) a node with a selectable status
\* and a reset strategy is returned iff the calendar-day difference between
\* the query's now and its last-reset timestamp is at least 1 (day),
\* 7 (week), 30 (month), 365 (year)
C7_IntervalMode ==
    Selected =>
        \A n \in NodeIds :
            /\ nodes[n].reset_time = -1
            /\ StatusSelectable(n)
            /\ nodes[n].data_limit_reset_strategy # "no_reset"
            => (n \in last_call.result <=> DueByInterval(n, last_call.sql_now))

\* C7 witness: a monthly node whose latest log row is 30 calendar days old,
\* but less than 30 times 24 hours, was returned
C7_Witness ==
    /\ Selected
    /\ \E n \in last_call.result :
        /\ nodes[n].reset_time = -1
        /\ nodes[n].data_limit_reset_strategy = "month"
        /\ LastResetAt(n) # nodes[n].created_at
        /\ last_call.sql_now - LastResetAt(n) < 30 * SECONDS_IN_DAY

\* C8: a selectable node with the day strategy and reset_time >= 0 is
\* returned iff the seconds of the day of now have reached reset_time and
\* the last reset was on an earlier date or before reset_time of its day;
\* with reset_time = 0, iff the date of now is after that of the last reset
C8_AbsoluteDay ==
    Selected =>
        \A n \in NodeIds :
            (Absolute(n, "day") /\ StatusSelectable(n)) =>
                /\ n \in DOMAIN last_call.reads
                /\ n \in last_call.result <=> DueByDay(n, last_call.reads[n])
                /\ nodes[n].reset_time = 0 =>
                    (n \in last_call.result <=>
                        last_call.reads[n] \div SECONDS_IN_DAY
                            > LastResetAt(n) \div SECONDS_IN_DAY)

\* C8 witness: a node reset daily at 01:00:00 and last reset earlier on the
\* same date was returned
C8_Witness ==
    /\ Selected
    /\ \E n \in last_call.result :
        /\ Absolute(n, "day")
        /\ nodes[n].reset_time > 0
        /\ Date(last_call.reads[n]) = Date(LastResetAt(n))

\* C9: a selectable node with the week strategy and reset_time >= 0 is
\* returned iff days_diff >= 7, the seconds of the week of now have reached
\* reset_time, and the seconds of the week of the last reset are below
\* reset_time or days_diff > 7
C9_AbsoluteWeek ==
    Selected =>
        \A n \in NodeIds :
            (Absolute(n, "week") /\ StatusSelectable(n)) =>
                /\ n \in DOMAIN last_call.reads
                /\ n \in last_call.result <=> DueByWeek(n, last_call.reads[n])

\* C9 witness: a weekly node last reset more than 7 days ago, later in its
\* week than reset_time, was returned
C9_Witness ==
    /\ Selected
    /\ \E n \in last_call.result :
        /\ Absolute(n, "week")
        /\ Date(last_call.reads[n]) - Date(LastResetAt(n)) > 7
        /\ Weekday(LastResetAt(n)) * SECONDS_IN_DAY
                + SecondsOfDay(LastResetAt(n)) >= nodes[n].reset_time

\* C10: a selectable node with the month strategy and reset_time >= 0 is
\* returned iff, with target_day = min(reset_time div 86400, 28) and
\* target_seconds = reset_time mod 86400, now has reached the target of its
\* month and the last reset is of an earlier year, of an earlier month of
\* the year, or of the same month and before the target
C10_AbsoluteMonth ==
    Selected =>
        \A n \in NodeIds :
            (Absolute(n, "month") /\ StatusSelectable(n)) =>
                /\ n \in DOMAIN last_call.reads
                /\ n \in last_call.result <=> DueByMonth(n, last_call.reads[n])

\* C10 witness: a node with a target day beyond 28, last reset earlier in
\* the month, was returned on the 29th or later
C10_Witness ==
    /\ Selected
    /\ \E n \in last_call.result :
        /\ Absolute(n, "month")
        /\ nodes[n].reset_time \div SECONDS_IN_DAY > 28
        /\ Day(last_call.reads[n]) > 28
        /\ Month(last_call.reads[n]) = Month(LastResetAt(n))
        /\ Year(last_call.reads[n]) = Year(LastResetAt(n))

\* the row of n with the day component of its reset_time replaced by 28
CappedAt28(n) ==
    [nodes[n] EXCEPT
        !.reset_time = 28 * SECONDS_IN_DAY + (@ % SECONDS_IN_DAY)]

\* C11: a selectable month node whose reset_time has a day component of 29,
\* 30 or 31 is returned iff the month rule returns it for the reset_time with
\* day component 28 and the same seconds of the day
C11_MonthCap ==
    Selected =>
        \A n \in NodeIds :
            /\ Absolute(n, "month")
            /\ StatusSelectable(n)
            /\ nodes[n].reset_time \div SECONDS_IN_DAY \in {29, 30, 31}
            => /\ n \in DOMAIN last_call.reads
               /\ n \in last_call.result <=>
                    ShouldReset(CappedAt28(n), last_call.reads[n],
                                LastResetAt(n))

\* C11 witness: a node with target day 30 was returned at 00:00:00 of a 29th,
\* before the 30th and before the target's time of day
C11_Witness ==
    /\ Selected
    /\ \E n \in last_call.result :
        /\ Absolute(n, "month")
        /\ nodes[n].reset_time \div SECONDS_IN_DAY = 30
        /\ Day(last_call.reads[n]) = 29
        /\ SecondsOfDay(last_call.reads[n]) < nodes[n].reset_time % SECONDS_IN_DAY

\* absolute year as the month rule reads with the day of the year
DueByYear(n, t) ==
    LET rt == nodes[n].reset_time
        last == LastResetAt(n)
        target_doy == rt \div SECONDS_IN_DAY
        target_seconds == rt % SECONDS_IN_DAY
        reached ==
            \/ YDay(t) > target_doy
            \/ YDay(t) = target_doy /\ t % SECONDS_IN_DAY >= target_seconds
        predates ==
            \/ Year(t) > Year(last)
            \/ /\ Year(t) = Year(last)
               /\ \/ YDay(last) < target_doy
                  \/ /\ YDay(last) = target_doy
                     /\ last % SECONDS_IN_DAY < target_seconds
    IN  reached /\ predates

\* C12: a selectable node with the year strategy and reset_time >= 0 is
\* returned iff now has reached the target day of the year and time of day,
\* and the last reset is of an earlier year or of the same year and before
\* the target: on an earlier day of the year, or on the target day before
\* the target's time of day
C12_AbsoluteYear ==
    Selected =>
        \A n \in NodeIds :
            (Absolute(n, "year") /\ StatusSelectable(n)) =>
                /\ n \in DOMAIN last_call.reads
                /\ n \in last_call.result <=> DueByYear(n, last_call.reads[n])

\* n has no log row
NeverReset(n) == \A i \in 1..Len(usage_logs) : usage_logs[i].node_id # n

\* what reset_node_usage leaves of a node that was stored as loaded: zero
\* counters, one new log row with the counters it had, connected unchanged
ResetOneOutcome ==
    (last_call.op = "reset_node_usage" /\ last_call.ok) =>
        \A n \in last_call.batch :
            Fresh(n) =>
                /\ nodes[n].uplink = 0
                /\ nodes[n].downlink = 0
                /\ Cardinality(NewLogsOf(n)) = 1
                /\ \A i \in NewLogsOf(n) :
                    /\ usage_logs[i].uplink = last_call.pre_nodes[n].uplink
                    /\ usage_logs[i].downlink = last_call.pre_nodes[n].downlink
                /\ last_call.pre_nodes[n].status = "connected" =>
                    nodes[n].status = "connected"

\* C13 as stated: in the week scenario the never-reset node is due on
\* Wednesday 2024-01-03T02:00:00Z, and reset_node_usage leaves it with zero
\* counters, one log row holding the counters it had, and connected unchanged
C13_WeekScenario ==
    /\ Selected => \A n \in NodeIds : NeverReset(n) => n \in last_call.result
    /\ ResetOneOutcome

\* C13 amended: in the week scenario the never-reset node is not due on
\* Wednesday 2024-01-03T02:00:00Z (two days after its creation, and
\* Wednesday 02:00:00 is before reset_time, Thursday 01:00:00, in the week);
\* reset_node_usage called on it leaves it with zero counters, one log row
\* holding the counters it had, and connected unchanged
C13_WeekScenarioNotDue ==
    /\ Selected => \A n \in NodeIds : NeverReset(n) => n \notin last_call.result
    /\ ResetOneOutcome

\* C13 witness: the connected node of the scenario, never reset and with
\* traffic on its counters, has just been reset by reset_node_usage
C13_Witness ==
    /\ last_call.op = "reset_node_usage"
    /\ last_call.ok
    /\ \E n \in last_call.batch :
        /\ Fresh(n)
        /\ last_call.pre_nodes[n].status = "connected"
        /\ last_call.pre_nodes[n].uplink > 0
        /\ \A i \in 1..Len(last_call.pre_logs) :
                last_call.pre_logs[i].node_id # n
        /\ nodes[n].data_limit_reset_strategy = "week"

\* n is a selectable node in interval mode with the strategy given
Interval(n, strategy) ==
    /\ nodes[n].data_limit_reset_strategy = strategy
    /\ nodes[n].reset_time = -1
    /\ StatusSelectable(n)

\* the seconds between n's last reset and the query's now
Elapsed(n) == last_call.sql_now - LastResetAt(n)

\* C14 as stated: in interval mode a day node last reset 23 hours before now
\* is not due and one last reset 25 hours before now is due, at every time
\* of day; a week node is not due after 6 days 23:59:59 and due after 7 days
C14_ElapsedBoundaries ==
    Selected =>
        \A n \in NodeIds :
            /\ Interval(n, "day") =>
                /\ Elapsed(n) = 23 * 3600 => n \notin last_call.result
                /\ Elapsed(n) = 25 * 3600 => n \in last_call.result
            /\ Interval(n, "week") =>
                /\ Elapsed(n) = 7 * SECONDS_IN_DAY - 1 =>
                        n \notin last_call.result
                /\ Elapsed(n) = 7 * SECONDS_IN_DAY => n \in last_call.result

\* C14 amended: in interval mode a day node last reset 25 hours before now
\* is due at every time of day, and one last reset 23 hours before now is
\* not due exactly when now is at 23:00:00 or later, the last reset being on
\* the same date; a week node is due after 7 days, and after 6 days 23:59:59
\* it is not due exactly when now is at 23:59:59, the last reset being six
\* dates earlier
C14_CalendarBoundaries ==
    Selected =>
        \A n \in NodeIds :
            /\ Interval(n, "day") =>
                /\ Elapsed(n) = 23 * 3600 =>
                    (n \notin last_call.result <=>
                        last_call.sql_now % SECONDS_IN_DAY >= 23 * 3600)
                /\ Elapsed(n) = 25 * 3600 => n \in last_call.result
            /\ Interval(n, "week") =>
                /\ Elapsed(n) = 7 * SECONDS_IN_DAY - 1 =>
                    (n \notin last_call.result <=>
                        last_call.sql_now % SECONDS_IN_DAY
                            = SECONDS_IN_DAY - 1)
                /\ Elapsed(n) = 7 * SECONDS_IN_DAY => n \in last_call.result

\* C14 witness: a day node last reset 23 hours before now, on the date
\* before, was returned
C14_Witness ==
    /\ Selected
    /\ \E n \in last_call.result :
        /\ Interval(n, "day")
        /\ Elapsed(n) = 23 * 3600
        /\ Date(last_call.sql_now) = Date(LastResetAt(n)) + 1

\* the last step was the commit of a second reset_node_usage in a row
CommittedAgain == last_call.op = "reset_node_usage_again" /\ last_call.ok

\* C15: reset_node_usage called twice in immediate succession on a node
\* (stored as loaded at the first call) adds two log rows: the first holds
\* the counters the node had, the second 0/0; the counters are zero after
\* the first call and after the second
C15_TwiceTwoRows ==
    CommittedAgain =>
        \A n \in last_call.batch :
            LET first == last_call.first
                k == Len(usage_logs)
            IN  first.objs[n] = first.pre_nodes[n] =>
                    /\ k = Len(first.pre_logs) + 2
                    /\ usage_logs[k - 1].node_id = n
                    /\ usage_logs[k - 1].uplink = first.pre_nodes[n].uplink
                    /\ usage_logs[k - 1].downlink = first.pre_nodes[n].downlink
                    /\ usage_logs[k].node_id = n
                    /\ usage_logs[k].uplink = 0
                    /\ usage_logs[k].downlink = 0
                    /\ last_call.pre_nodes[n].uplink = 0
                    /\ last_call.pre_nodes[n].downlink = 0
                    /\ nodes[n].uplink = 0
                    /\ nodes[n].downlink = 0

\* C15 witness: a node with traffic on its counters has just been reset
\* twice in a row
C15_Witness ==
    /\ CommittedAgain
    /\ \E n \in last_call.batch :
        /\ last_call.first.objs[n] = last_call.first.pre_nodes[n]
        /\ last_call.first.pre_nodes[n].uplink > 0

\* the log rows of n that record non-zero totals
NonZeroLogsOf(n) ==
    {i \in 1..Len(usage_logs) :
        /\ usage_logs[i].node_id = n
        /\ (usage_logs[i].uplink # 0 \/ usage_logs[i].downlink # 0)}

\* C16: when the scheduled selection and a single-node reset overlap on a
\* due node, at most one log row recording the node's non-zero totals is
\* committed (no traffic being recorded in the cycle, a second such row
\* records the same totals again)
C16_NoDoubleLog ==
    \A n \in NodeIds : Cardinality(NonZeroLogsOf(n)) <= 1

\* the columns bulk_update_node_status writes besides status
StatusColumns ==
    {"message", "xray_version", "node_version", "last_status_change"}

\* a committed reset keeps what the status pipeline wrote between the load
\* and the commit, and the status is that of the later status write: the
\* reset's when it found the object limited, the pipeline's otherwise
ResetKeepsStatusUpdate ==
    Committed =>
        \A n \in last_call.batch :
            FreshCounters(n) =>
                /\ nodes[n].uplink = 0
                /\ nodes[n].downlink = 0
                /\ Cardinality(NewLogsOf(n)) = 1
                /\ \A c \in StatusColumns :
                        nodes[n][c] = last_call.pre_nodes[n][c]
                /\ nodes[n].status =
                        IF last_call.objs[n].status = "limited"
                        THEN "connecting"
                        ELSE last_call.pre_nodes[n].status

\* neither operation waits for the other: a session that has loaded its
\* nodes can commit its reset, and a status update of both nodes can be
\* applied, in every state
NeitherWaits ==
    /\ \A s \in ApiSessions :
            sessions[s].pc = "loaded" => ENABLED ResetNodeUsage(s)
    /\ \A s \in JobSessions :
            sessions[s].pc = "selected" => ENABLED BulkResetNodeUsage(s)
    /\ ENABLED BulkUpdateNodeStatus

\* a step that writes the status columns of a node and nothing else of the
\* database state leaves the counters and the log rows as the resets left
\* them
UpdateKeepsReset ==
    (last_call'.op = "other" /\ sessions' = sessions) =>
        \A n \in NodeIds :
            (\E c \in StatusColumns \cup {"status"} :
                    nodes'[n][c] # nodes[n][c]) =>
                /\ nodes'[n].uplink = nodes[n].uplink
                /\ nodes'[n].downlink = nodes[n].downlink
                /\ usage_logs' = usage_logs

C18_LastResetMonotonic ==
    [][\A n \in NodeIds : LastResetAt(n)' >= LastResetAt(n)]_vars

\* C18 witness: a committed reset has moved the last-reset timestamp of a
\* node from the node's created_at to the instant of the reset
C18_Witness ==
    /\ Committed
    /\ \E n \in last_call.batch :
        /\ \A i \in 1..Len(last_call.pre_logs) :
                last_call.pre_logs[i].node_id # n
        /\ LastResetAt(n) > nodes[n].created_at
        /\ LastResetAt(n) = now

\* the last step was the commit of remove_node, and it succeeded
Removed == last_call.op = "remove_node" /\ last_call.ok

\* C19: after remove_node(n) has committed, no row of node_user_usages,
\* node_usages, node_stats or the reset logs refers to n and there is no
\* node n, however many such rows there were; the rows of the other nodes
\* and the other nodes are as before
C19_RemoveNodeDeletesAll ==
    Removed =>
        LET n == last_call.node_id
        IN  /\ n \notin DOMAIN nodes
            /\ \A tbl \in UsageTables :
                /\ \A r \in usage_tables[tbl] : r.node_id # n
                /\ \A r \in last_call.pre_tables[tbl] :
                        r.node_id # n => r \in usage_tables[tbl]
                /\ usage_tables[tbl] \subseteq last_call.pre_tables[tbl]
            /\ \A i \in 1..Len(usage_logs) : usage_logs[i].node_id # n
            /\ \A m \in NodeIds \ {n} :
                /\ Cardinality({i \in 1..Len(usage_logs) :
                                    usage_logs[i].node_id = m})
                    = Cardinality({i \in 1..Len(last_call.pre_logs) :
                                    last_call.pre_logs[i].node_id = m})
                /\ \A i \in 1..Len(last_call.pre_logs) :
                    last_call.pre_logs[i].node_id = m =>
                        \E h \in 1..Len(usage_logs) :
                            usage_logs[h] = last_call.pre_logs[i]
                /\ m \in DOMAIN last_call.pre_nodes =>
                    (m \in DOMAIN nodes /\ nodes[m] = last_call.pre_nodes[m])

\* C19 witness: a node with MaxRows rows in each of the four tables has just
\* been removed, next to a node with rows of its own
C19_Witness ==
    /\ Removed
    /\ \A tbl \in UsageTables :
        /\ Cardinality({r \in last_call.pre_tables[tbl] :
                            r.node_id = last_call.node_id}) = MaxRows
        /\ usage_tables[tbl] # {}
    /\ Cardinality({i \in 1..Len(last_call.pre_logs) :
            last_call.pre_logs[i].node_id = last_call.node_id}) = MaxRows
    /\ usage_logs # <<>>

\* the first reset_time a strategy does not take
MaxResetTime(strategy) ==
    CASE strategy = "day" -> 86400
      [] strategy = "week" -> 604800
      [] strategy = "month" -> 2678400
      [] strategy = "year" -> 31536000

\* C20: for a strategy other than no_reset the validation accepts a
\* reset_time iff it is -1 or at least 0 and below the maximum of the
\* strategy; every other integer, those below -1 included, is rejected
C20_ValidationRejectsInvalid ==
    (last_call.op = "create_node" /\ last_call.strategy # "no_reset") =>
        (last_call.accepted <=>
            \/ last_call.reset_time = -1
            \/ /\ 0 <= last_call.reset_time
               /\ last_call.reset_time < MaxResetTime(last_call.strategy))

-----------------------------------------------------------------------------
(* The pipeline over time *)

\* the calendar week of an instant, counted in whole weeks from Monday to
\* Sunday
WeekOf(t) == (Date(t) + 3) \div 7

\* the target point of week w for the reset_time rt
WeekTarget(w, rt) == (7 * w - 3) * SECONDS_IN_DAY + rt

\* the log rows of n committed in week w
ResetsInWeek(n, w) ==
    {i \in LogsOf(usage_logs, n) : WeekOf(usage_logs[i].created_at) = w}

\* the job has run to its end at the instant now
JobDone == \A s \in JobSessions : sessions[s].pc = "done"

\* C21: with the week strategy in absolute mode and the job run at every
\* instant, every calendar week after the week of the node's creation whose
\* target point has been served holds exactly one reset of the node, at the
\* target point, and no week holds more than one
C21_WeeklyOnce ==
    \A n \in NodeIds :
        Absolute(n, "week") =>
            \A w \in (WeekOf(nodes[n].created_at) + 1)..WeekOf(now) :
                LET target == WeekTarget(w, nodes[n].reset_time)
                IN  /\ Cardinality(ResetsInWeek(n, w)) <= 1
                    /\ (now > target \/ (now = target /\ JobDone)) =>
                        /\ Cardinality(ResetsInWeek(n, w)) = 1
                        /\ \A i \in ResetsInWeek(n, w) :
                                usage_logs[i].created_at = target

\* the commit of a batch holding n has just failed
FailedFor(n) ==
    /\ last_call.op = "bulk_reset_node_usage"
    /\ ~last_call.ok
    /\ n \in last_call.batch

\* a batch holding n has just been committed
ResetInBatch(n) ==
    /\ last_call.op = "bulk_reset_node_usage"
    /\ last_call.ok
    /\ n \in last_call.batch

\* C22: a batch commit that fails leaves every node and the log rows as they
\* were, and every node of the failed batch is reset by the batch commit of
\* a later run of the job (under fair ticking, the store being available
\* again)
C22_FailedTickRetried ==
    /\ []((last_call.op = "bulk_reset_node_usage" /\ ~last_call.ok) =>
            NothingWritten)
    /\ \A n \in NodeIds :
        FailedFor(n) ~>
            (/\ ResetInBatch(n)
             /\ Cardinality(NewLogsOf(n)) = 1
             /\ nodes[n].uplink = 0
             /\ nodes[n].downlink = 0)

\* C22 witness: the job runs at every full hour and the absolute-mode node,
\* due since the first run on Tuesday, has its first reset on Wednesday at
\* 01:00:00 or later: the commits of the runs before failed, and the run at
\* midnight did not find it due
C22_Witness ==
    \E n \in NodeIds :
        /\ ResetInBatch(n)
        /\ nodes[n].reset_time = 3600
        /\ LogsOf(last_call.pre_logs, n) = {}
        /\ Date(now) > Date(RetryStart)
        /\ nodes[n].uplink = 0

\* the nodes of the last batch that were removed before its commit
Gone == last_call.batch \ DOMAIN last_call.pre_nodes

C24_OneInstant ==
    Selected =>
        \A n, m \in NodeIds :
            /\ StatusSelectable(n)
            /\ StatusSelectable(m)
            /\ nodes[n].data_limit_reset_strategy
                    = nodes[m].data_limit_reset_strategy
            /\ nodes[n].reset_time = nodes[m].reset_time
            /\ LastResetAt(n) = LastResetAt(m)
            => (n \in last_call.result <=> m \in last_call.result)

\* a step keeps every log row where it is and as it is, and only a reset adds
\* rows
LogsOnlyGrowByReset ==
    /\ Len(usage_logs') >= Len(usage_logs)
    /\ SubSeq(usage_logs', 1, Len(usage_logs)) = usage_logs
    /\ Len(usage_logs') > Len(usage_logs) => last_call'.op \in ResetOps

\* C25 as stated: log rows are added by reset_node_usage and
\* bulk_reset_node_usage only, and no operation of the module changes or
\* deletes a committed log row
C25_LogsImmutable == [][LogsOnlyGrowByReset]_vars

\* C25 amended: log rows are added by reset_node_usage and
\* bulk_reset_node_usage only and no operation changes a committed log row;
\* remove_node deletes the log rows of the node it removes, those and no
\* other, and no other operation deletes a log row
C25_LogsImmutableButRemoval ==
    [][IF last_call'.op = "remove_node" /\ last_call'.ok
       THEN LET keep(l) == l.node_id # last_call'.node_id
            IN  usage_logs' = SelectSeq(usage_logs, keep)
       ELSE LogsOnlyGrowByReset]_vars

\* C25 witness: clear_usage_data has just deleted rows of a usage table and
\* the log rows, some of them added by a reset, are all there
C25_Witness ==
    /\ last_call.op = "clear_usage_data"
    /\ usage_tables # last_call.pre_tables
    /\ usage_logs = last_call.pre_logs
    /\ \E i \in 1..Len(usage_logs) : usage_logs[i].created_at = now

\* the instant against which the last selection decided n: the query's now
\* in interval mode, the clock read of n's iteration in absolute mode
DecidedAt(n) ==
    IF n \in DOMAIN last_call.reads
    THEN last_call.reads[n]
    ELSE last_call.sql_now

\* C26: whatever the strategy and the mode, a node whose last reset is at
\* the instant the selection decides it against is not returned: the job
\* fired again with no time elapsed since the commit of a reset does not
\* select the node again
C26_NoImmediateRefire ==
    Selected =>
        \A n \in NodeIds :
            DecidedAt(n) = LastResetAt(n) => n \notin last_call.result

\* C26 witness: a node in absolute mode, reset at this very instant, at or
\* after the target of its cycle, was left out by the selection that
\* followed
C26_Witness ==
    /\ Selected
    /\ \E n \in NodeIds :
        /\ nodes[n].reset_time >= 0
        /\ nodes[n].data_limit_reset_strategy = "month"
        /\ ~NeverReset(n)
        /\ DecidedAt(n) = LastResetAt(n)
        /\ StatusSelectable(n)
        /\ n \notin last_call.result

\* the instants of the resets of n: its log rows
ResetTimes(n) == {usage_logs[i].created_at : i \in LogsOf(usage_logs, n)}

\* C27: under the absolute day strategy the resets of the pipeline fall on
\* different calendar days, and each at a time of day at or after the
\* node's reset_time
C27_DailyOnce ==
    \A n \in DOMAIN nodes :
        (nodes[n].data_limit_reset_strategy = "day" /\ nodes[n].reset_time >= 0)
            => /\ \A i, j \in LogsOf(usage_logs, n) :
                    Date(usage_logs[i].created_at) = Date(usage_logs[j].created_at)
                        => i = j
               /\ \A t \in ResetTimes(n) :
                    SecondsOfDay(t) >= nodes[n].reset_time

-----------------------------------------------------------------------------
(* Modification of a node *)

\* the last operation was a modify_node that committed
Modified == last_call.op = "modify_node" /\ last_call.ok

\* the object of the last modify_node after the modification's fields were
\* applied to it
Applied == SetAttrs(last_call.objs[last_call.node_id], last_call.node_data)

\* C28: after modify_node the status of the node is connecting, disabled or
\* limited: connecting when the status after applying the modification is
\* connected, error or connecting, disabled when it is disabled, and for a
\* limited one connecting exactly when data_limit > used_traffic; message,
\* xray_version and node_version are null
C28_ModifyStatus ==
    Modified =>
        LET row == nodes[last_call.node_id]
        IN  /\ row.status \in {"connecting", "disabled", "limited"}
            /\ Applied.status \in {"connected", "error", "connecting"}
                => row.status = "connecting"
            /\ Applied.status = "disabled" => row.status = "disabled"
            /\ Applied.status = "limited"
                => (row.status = "connecting"
                        <=> Applied.data_limit > used_traffic(Applied))
            /\ row.message = NULL
            /\ row.xray_version = NULL
            /\ row.node_version = NULL

\* C29: after modify_node a node is limited only with a data limit other
\* than 0 that its used traffic has reached, and a limited node whose data
\* limit is modified to 0 or to a value above its used traffic is connecting
C29_LimitedOnlyOverLimit ==
    Modified =>
        LET row == nodes[last_call.node_id]
        IN  /\ row.status = "limited"
                => /\ row.data_limit # 0
                   /\ used_traffic(row) >= row.data_limit
            /\ (/\ Applied.status = "limited"
                /\ "data_limit" \in DOMAIN last_call.node_data
                /\ \/ Applied.data_limit = 0
                   \/ Applied.data_limit > used_traffic(Applied))
                => row.status = "connecting"

-----------------------------------------------------------------------------
(* The status pipeline *)

\* the last operation was a bulk_update_node_status
BulkUpdated == last_call.op = "bulk_update_node_status"

\* the entries of the last list for node n, by position
EntriesFor(n) ==
    {i \in 1..Len(last_call.updates) : last_call.updates[i].node_id = n}

\* C30: bulk_update_node_status with an empty list writes nothing; else a
\* node with an entry has the status, message, xray_version and
\* node_version of its entry (of the last one, when it has several) and the
\* timestamp of the call, the same for every entry, with every other field as
\* before; an entry for an id without a node adds and changes nothing; the
\* nodes without an entry, the log rows and the usage rows are as before
C30_BulkUpdateFrame ==
    BulkUpdated =>
        LET pre == last_call.pre_nodes
            ups == last_call.updates
        IN  /\ ups = <<>> => nodes = pre
            /\ DOMAIN nodes = DOMAIN pre
            /\ \A n \in DOMAIN pre :
                IF EntriesFor(n) = {}
                THEN nodes[n] = pre[n]
                ELSE LET upd == ups[Max(EntriesFor(n))]
                     IN  nodes[n] =
                            [pre[n] EXCEPT
                                !.status = upd.status,
                                !.message = upd.message,
                                !.xray_version = upd.xray_version,
                                !.node_version = upd.node_version,
                                !.last_status_change = now]
            /\ usage_logs = last_call.pre_logs
            /\ usage_tables = last_call.pre_tables

\* C30 witness: a list with an entry for a removed node and an entry for a
\* node that holds traffic and a log row was written: the node took a new
\* status and timestamp
C30_Witness ==
    /\ BulkUpdated
    /\ \E i, j \in 1..Len(last_call.updates) :
        /\ last_call.updates[i].node_id \notin DOMAIN last_call.pre_nodes
        /\ last_call.updates[j].node_id \in DOMAIN nodes
        /\ LET n == last_call.updates[j].node_id
           IN  /\ nodes[n].status # last_call.pre_nodes[n].status
               /\ nodes[n].last_status_change
                    # last_call.pre_nodes[n].last_status_change
               /\ nodes[n].uplink # 0
               /\ LogsOf(usage_logs, n) # {}

====
